---- MODULE Spec2Model ----
(***************************************************************************)
(* A model of src/bitcoin/getaddr.py: the exact-count transport reader     *)
(* (recv_all), the message envelope codec (make_message, read_msg) with    *)
(* its double SHA-256 checksum, the address-list decoder                   *)
(* (decode_addr_payload), the version payload (make_version_payload) and   *)
(* the session (main) against a peer that follows a short script.          *)
(*                                                                         *)
(* Representation.  A Python bytes object is a sequence of integers in     *)
(* 0..255; a str is the sequence of its code points.  TLC's integers are   *)
(* 32 bits wide, so an unsigned 32- or 64-bit field is kept as a numeral:  *)
(* its base-256 digits, most significant first, at the field's width.  A   *)
(* numeral is turned into an integer (NumeralToInt, saturating at          *)
(* 2^31 - 1) only where the code uses the field as a size or a count,      *)
(* which it only ever compares with buffer lengths far below that.         *)
(***************************************************************************)
EXTENDS Integers, Sequences, FiniteSets, TLC

VARIABLES
  wire,         \* the bytes the peer sends next, not yet received
  stream,       \* all the bytes the peer set out to send, received or not
  peerCloses,   \* TRUE: the peer closes once wire is drained; FALSE: it stays silent
  peer,         \* the peer's position: "encode", "transmit", "done"
  plan,         \* what the peer encodes: [command, payload]
  fault,        \* the bits of it the connection inverted: a set of [pos, mask]
  consumed,     \* number of bytes the client has taken from the connection
  n,            \* recv_all: the number of bytes asked for
  data,         \* recv_all: the bytes accumulated so far
  rpc,          \* recv_all: "idle", "recv" (at sock.recv), "returned", "raised"
  mpc,          \* read_msg: "idle", "header", "payload", "returned", "raised"
  hdr,          \* read_msg: the unpacked header fields
  ret,          \* read_msg: the returned (command, payload)
  exc,          \* the exception raised, if any: [type, what]
  addrPayload,  \* decode_addr_payload: its argument
  shape,        \* how the peer built addrPayload: [prefix, records, tail]
  addrpc,       \* decode_addr_payload: "idle", "call", "returned", "raised"
  count,        \* decode_addr_payload: the CompactSize count, a numeral
  offset,       \* decode_addr_payload: the offset after the count
  peers,        \* decode_addr_payload: the returned list
  versionArgs,  \* make_version_payload: its arguments
  vpc,          \* make_version_payload: "idle", "call", "returned", "raised"
  version_payload,  \* make_version_payload: the returned payload
  sock,         \* main: the connection s: "none", "open", "closed"
  mainpc,       \* main: the position in main
  round,        \* main: the iterations of the handshake loop done; for a caller
                \* that loops on read_msg, the messages it has taken
  sent,         \* main: the messages handed to s.sendall, in order
  log,          \* main: the lines printed, in order
  script        \* main: the messages the peer has sent, in order

peerVars == << wire, stream, peerCloses, peer, plan, fault >>
recvVars == << consumed, n, data, rpc >>
msgVars  == << mpc, hdr, ret >>
addrVars == << addrPayload, shape, addrpc, count, offset, peers >>
versionVars == << versionArgs, vpc, version_payload >>
mainVars == << sock, mainpc, round, sent, log, script >>
vars == << wire, stream, peerCloses, peer, plan, fault, consumed, n, data, rpc, mpc, hdr, ret,
           exc, addrPayload, shape, addrpc, count, offset, peers,
           versionArgs, vpc, version_payload,
           sock, mainpc, round, sent, log, script >>

\* ---------------------------------------------------------------------
\* bytes, numerals and struct
\* ---------------------------------------------------------------------
Byte == 0..255

Min(a, b) == IF a < b THEN a ELSE b

Reverse(s) == [i \in 1..Len(s) |-> s[Len(s) + 1 - i]]

Zeros(k) == [i \in 1..k |-> 0]

Take(s, k) == SubSeq(s, 1, Min(k, Len(s)))

Drop(s, k) == SubSeq(s, k + 1, Len(s))

\* the largest integer TLC holds, 2^31 - 1
MaxInt == (2 ^ 30 - 1) * 2 + 1

\* the integer a numeral denotes, or MaxInt when it is larger than that
RECURSIVE NumeralValue(_, _)
NumeralValue(acc, digits) ==
  IF Len(digits) = 0 THEN acc
  ELSE IF acc > (MaxInt - digits[1]) \div 256 THEN MaxInt
  ELSE NumeralValue(acc * 256 + digits[1], Tail(digits))

NumeralToInt(digits) == NumeralValue(0, digits)

\* the numeral of width w of the integer v (v < 256^w)
RECURSIVE IntToNumeral(_, _)
IntToNumeral(v, w) ==
  IF w = 0 THEN << >> ELSE Append(IntToNumeral(v \div 256, w - 1), v % 256)

\* struct "<H", "<I", "<Q": the first byte is the least significant digit
unpack_le(bytes) == Reverse(bytes)
pack_le(numeral) == Reverse(numeral)

\* struct ">H": the first byte is the most significant digit
unpack_be(bytes) == bytes

\* struct "12s", "4s": exactly w bytes, cut or right-padded with zeros
pack_s(bytes, w) == Take(bytes, w) \o Zeros(w - Min(w, Len(bytes)))

\* ---------------------------------------------------------------------
\* hashlib.sha256 (FIPS 180-4), on 32-bit words kept as <<high, low>>
\* pairs of 16-bit halves so that no intermediate exceeds 2^31 - 1.
\* ---------------------------------------------------------------------
Pow2(k) == 2 ^ k

\* x AND y for the 4-bit x and y, at index 16 * x + y + 1
AndNibble ==
  <<
      0,  0,  0,  0,  0,  0,  0,  0,  0,  0,  0,  0,  0,  0,  0,  0,
      0,  1,  0,  1,  0,  1,  0,  1,  0,  1,  0,  1,  0,  1,  0,  1,
      0,  0,  2,  2,  0,  0,  2,  2,  0,  0,  2,  2,  0,  0,  2,  2,
      0,  1,  2,  3,  0,  1,  2,  3,  0,  1,  2,  3,  0,  1,  2,  3,
      0,  0,  0,  0,  4,  4,  4,  4,  0,  0,  0,  0,  4,  4,  4,  4,
      0,  1,  0,  1,  4,  5,  4,  5,  0,  1,  0,  1,  4,  5,  4,  5,
      0,  0,  2,  2,  4,  4,  6,  6,  0,  0,  2,  2,  4,  4,  6,  6,
      0,  1,  2,  3,  4,  5,  6,  7,  0,  1,  2,  3,  4,  5,  6,  7,
      0,  0,  0,  0,  0,  0,  0,  0,  8,  8,  8,  8,  8,  8,  8,  8,
      0,  1,  0,  1,  0,  1,  0,  1,  8,  9,  8,  9,  8,  9,  8,  9,
      0,  0,  2,  2,  0,  0,  2,  2,  8,  8, 10, 10,  8,  8, 10, 10,
      0,  1,  2,  3,  0,  1,  2,  3,  8,  9, 10, 11,  8,  9, 10, 11,
      0,  0,  0,  0,  4,  4,  4,  4,  8,  8,  8,  8, 12, 12, 12, 12,
      0,  1,  0,  1,  4,  5,  4,  5,  8,  9,  8,  9, 12, 13, 12, 13,
      0,  0,  2,  2,  4,  4,  6,  6,  8,  8, 10, 10, 12, 12, 14, 14,
      0,  1,  2,  3,  4,  5,  6,  7,  8,  9, 10, 11, 12, 13, 14, 15 >>

And16(a, b) ==
    AndNibble[(a \div 4096) * 16 + (b \div 4096) + 1] * 4096
  + AndNibble[((a \div 256) % 16) * 16 + ((b \div 256) % 16) + 1] * 256
  + AndNibble[((a \div 16) % 16) * 16 + ((b \div 16) % 16) + 1] * 16
  + AndNibble[(a % 16) * 16 + (b % 16) + 1]

\* a XOR b = a + b - 2 * (a AND b)
Xor16(a, b) == a + b - 2 * And16(a, b)

Xor3of16(a, b, c) == Xor16(Xor16(a, b), c)

\* (e AND f) XOR ((NOT e) AND g): the two terms share no bit
Ch16(e, f, g) == And16(e, f) + And16(65535 - e, g)

\* (a AND b) XOR (a AND c) XOR (b AND c) = (a AND b) OR (c AND (a XOR b))
Maj16(a, b, c) == And16(a, b) + And16(c, Xor16(a, b))

Xor3(a, b, c) == << Xor3of16(a[1], b[1], c[1]), Xor3of16(a[2], b[2], c[2]) >>
Ch(e, f, g) == << Ch16(e[1], f[1], g[1]), Ch16(e[2], f[2], g[2]) >>
Maj(a, b, c) == << Maj16(a[1], b[1], c[1]), Maj16(a[2], b[2], c[2]) >>

Add32(a, b) ==
  LET lo == a[2] + b[2]
      hi == a[1] + b[1] + (lo \div 65536)
  IN  << hi % 65536, lo % 65536 >>

RECURSIVE Rotr(_, _)
Rotr(w, r) ==
  IF r >= 16 THEN Rotr(<< w[2], w[1] >>, r - 16)
  ELSE IF r = 0 THEN w
  ELSE << (w[1] \div Pow2(r)) + (w[2] % Pow2(r)) * Pow2(16 - r),
          (w[2] \div Pow2(r)) + (w[1] % Pow2(r)) * Pow2(16 - r) >>

Shr(w, r) ==
  IF r >= 16 THEN << 0, w[1] \div Pow2(r - 16) >>
  ELSE << w[1] \div Pow2(r),
          (w[2] \div Pow2(r)) + (w[1] % Pow2(r)) * Pow2(16 - r) >>

BigSigma0(a) == Xor3(Rotr(a, 2), Rotr(a, 13), Rotr(a, 22))
BigSigma1(e) == Xor3(Rotr(e, 6), Rotr(e, 11), Rotr(e, 25))
SmallSigma0(w) == Xor3(Rotr(w, 7), Rotr(w, 18), Shr(w, 3))
SmallSigma1(w) == Xor3(Rotr(w, 17), Rotr(w, 19), Shr(w, 10))

SHA256_K ==
  << <<17034, 12184>>, <<28983, 17553>>, <<46528, 64463>>, <<59829, 56229>>,
    <<14678, 49755>>, <<23025, 4593>>, <<37439, 33444>>, <<43804, 24277>>,
    <<55303, 43672>>, <<4739, 23297>>, <<9265, 34238>>, <<21772, 32195>>,
    <<29374, 23924>>, <<32990, 45566>>, <<39900, 1703>>, <<49563, 61812>>,
    <<58523, 27073>>, <<61374, 18310>>, <<4033, 40390>>, <<9228, 41420>>,
    <<11753, 11375>>, <<19060, 33962>>, <<23728, 43484>>, <<30457, 35034>>,
    <<38974, 20818>>, <<43057, 50797>>, <<45059, 10184>>, <<48985, 32711>>,
    <<50912, 3059>>, <<54695, 37191>>, <<1738, 25425>>, <<5161, 10599>>,
    <<10167, 2693>>, <<11803, 8504>>, <<19756, 28156>>, <<21304, 3347>>,
    <<25866, 29524>>, <<30314, 2747>>, <<33218, 51502>>, <<37490, 11397>>,
    <<41663, 59553>>, <<43034, 26187>>, <<49739, 35696>>, <<51052, 20899>>,
    <<53650, 59417>>, <<54937, 1572>>, <<62478, 13701>>, <<4202, 41072>>,
    <<6564, 49430>>, <<7735, 27656>>, <<10056, 30540>>, <<13488, 48309>>,
    <<14620, 3251>>, <<20184, 43594>>, <<23452, 51791>>, <<26670, 28659>>,
    <<29839, 33518>>, <<30885, 25455>>, <<33992, 30740>>, <<36039, 520>>,
    <<37054, 65530>>, <<42064, 27883>>, <<48889, 41975>>, <<50801, 30962>> >>

SHA256_H0 ==
  << <<27145, 58983>>, <<47975, 44677>>, <<15470, 62322>>, <<42319, 62778>>,
    <<20750, 21119>>, <<39685, 26764>>, <<8067, 55723>>, <<23520, 52505>> >>

\* the message length in bits as 8 big-endian bytes (messages here are
\* far shorter than 2^28 bytes, so only the low 4 bytes can be non-zero)
BitLength8(len) ==
  LET bits == len * 8
  IN  << 0, 0, 0, 0, (bits \div 16777216) % 256, (bits \div 65536) % 256,
         (bits \div 256) % 256, bits % 256 >>

ShaPad(msg) ==
  LET len == Len(msg)
      k   == (119 - (len % 64)) % 64
  IN  msg \o << 128 >> \o Zeros(k) \o BitLength8(len)

\* big-endian 32-bit word at byte offset off (0-based) of block
WordAt(block, off) ==
  << block[off + 1] * 256 + block[off + 2], block[off + 3] * 256 + block[off + 4] >>

\* The operator's arguments are evaluated when first used, so each level
\* reads the length of what it was given before it recurses: the chain of
\* pending evaluations stays one step deep.
RECURSIVE Schedule(_)
Schedule(w) ==
  LET t == Len(w) + 1
  IN  IF t > 64 THEN w
      ELSE Schedule(Append(w, Add32(Add32(SmallSigma1(w[t - 2]), w[t - 7]),
                                    Add32(SmallSigma0(w[t - 15]), w[t - 16]))))

Round(s, k, wt) ==
  LET t1 == Add32(Add32(Add32(s[8], BigSigma1(s[5])),
                        Add32(Ch(s[5], s[6], s[7]), k)), wt)
      t2 == Add32(BigSigma0(s[1]), Maj(s[1], s[2], s[3]))
  IN  << Add32(t1, t2), s[1], s[2], s[3], Add32(s[4], t1), s[5], s[6], s[7] >>

RECURSIVE Rounds(_, _, _)
Rounds(s, w, t) ==
  IF t > 64 \/ Len(s) # 8 THEN s
  ELSE Rounds(Round(s, SHA256_K[t], w[t]), w, t + 1)

AddState(h, s) ==
  << Add32(h[1], s[1]), Add32(h[2], s[2]), Add32(h[3], s[3]), Add32(h[4], s[4]),
     Add32(h[5], s[5]), Add32(h[6], s[6]), Add32(h[7], s[7]), Add32(h[8], s[8]) >>

FirstWords(block) ==
  << WordAt(block, 0), WordAt(block, 4), WordAt(block, 8), WordAt(block, 12),
     WordAt(block, 16), WordAt(block, 20), WordAt(block, 24), WordAt(block, 28),
     WordAt(block, 32), WordAt(block, 36), WordAt(block, 40), WordAt(block, 44),
     WordAt(block, 48), WordAt(block, 52), WordAt(block, 56), WordAt(block, 60) >>

Compress(h, block) == AddState(h, Rounds(h, Schedule(FirstWords(block)), 1))

RECURSIVE ShaBlocks(_, _)
ShaBlocks(h, padded) ==
  IF Len(padded) = 0 \/ Len(h) # 8 THEN h
  ELSE ShaBlocks(Compress(h, SubSeq(padded, 1, 64)),
                 SubSeq(padded, 65, Len(padded)))

WordBytes(w) == << w[1] \div 256, w[1] % 256, w[2] \div 256, w[2] % 256 >>

Digest(h) ==
  WordBytes(h[1]) \o WordBytes(h[2]) \o WordBytes(h[3]) \o WordBytes(h[4])
  \o WordBytes(h[5]) \o WordBytes(h[6]) \o WordBytes(h[7]) \o WordBytes(h[8])

sha256(msg) == Digest(ShaBlocks(SHA256_H0, ShaPad(msg)))

double_sha256(b) == sha256(sha256(b))

\* ---------------------------------------------------------------------
\* exceptions
\* ---------------------------------------------------------------------
NoExc == [type |-> "none", what |-> "none"]
UnexpectedEof == [type |-> "IOError", what |-> "UnexpectedEof"]
BadMagic == [type |-> "IOError", what |-> "BadMagic"]
ChecksumMismatch == [type |-> "IOError", what |-> "ChecksumMismatch"]
Truncated == [type |-> "IOError", what |-> "Truncated"]
\* bytes.decode("ascii") on a byte >= 0x80: a ValueError, not an IOError
UnicodeDecodeError == [type |-> "UnicodeDecodeError", what |-> "InvalidCommandEncoding"]
\* struct.unpack, struct.unpack_from on a buffer that is too short
StructError == [type |-> "struct.error", what |-> "BufferTooShort"]
\* payload[0] on an empty payload
IndexError == [type |-> "IndexError", what |-> "EmptyPayload"]

\* ---------------------------------------------------------------------
\* message construction
\* ---------------------------------------------------------------------
\* 0xD9B4BEF9
MAGIC_MAINNET == << 217, 180, 190, 249 >>

HeaderSize == 24

\* double_sha256(payload)[:4]
Checksum4(payload) == Take(double_sha256(payload), 4)

\* command.encode("ascii") + b"\x00" * (12 - len(command)); the commands of
\* the model are ASCII, which encode to their code points
PadCommand(command) == command \o Zeros(12 - Min(12, Len(command)))

\* a faulty variant: the length is written most significant byte first
PackLength_be(len) == IntToNumeral(len, 4)

\* struct "<I" of len(payload)
PackLength(len) == pack_le(IntToNumeral(len, 4))

make_message(command, payload) ==
  LET command_padded == PadCommand(command)
      checksum == Checksum4(payload)
      header == pack_le(MAGIC_MAINNET) \o pack_s(command_padded, 12)
                \o PackLength(Len(payload)) \o pack_s(checksum, 4)
  IN  header \o payload

\* ---------------------------------------------------------------------
\* message parsing
\* ---------------------------------------------------------------------
\* a faulty variant: the padding is left on the command
rstrip_zeros_none(bytes) == bytes

\* bytes.rstrip(b"\x00")
RECURSIVE rstrip_zeros(_)
rstrip_zeros(bytes) ==
  IF Len(bytes) > 0 /\ bytes[Len(bytes)] = 0
  THEN rstrip_zeros(SubSeq(bytes, 1, Len(bytes) - 1))
  ELSE bytes

\* bytes.decode("ascii"): the code points, unless a byte is not ASCII
decode_ascii(bytes) ==
  IF \E i \in 1..Len(bytes) : bytes[i] >= 128
  THEN [ok |-> FALSE, text |-> << >>]
  ELSE [ok |-> TRUE, text |-> bytes]

\* struct.unpack("<I12sI4s", header): the buffer must hold exactly 24 bytes
unpack_header(header) ==
  IF Len(header) # HeaderSize
  THEN [ok |-> FALSE]
  ELSE [ok |-> TRUE,
        magic |-> unpack_le(SubSeq(header, 1, 4)),
        command_raw |-> SubSeq(header, 5, 16),
        length |-> NumeralToInt(unpack_le(SubSeq(header, 17, 20))),
        checksum |-> SubSeq(header, 21, 24)]

\* a faulty variant: the magic is not looked at
magic_ok_any(magic) == TRUE

\* not (magic != MAGIC_MAINNET)
magic_ok(magic) == magic = MAGIC_MAINNET

\* a faulty variant: only three of the four bytes are compared
checksum_ok_short(payload, checksum) ==
  Take(double_sha256(payload), 3) = Take(checksum, 3)

\* not (double_sha256(payload)[:4] != checksum)
checksum_ok(payload, checksum) == Take(double_sha256(payload), 4) = checksum

NoHdr == [command |-> << >>, length |-> 0, checksum |-> << >>]
NoRet == << >>

\* ---------------------------------------------------------------------
\* recv_all
\* ---------------------------------------------------------------------
\* a faulty variant: every sock.recv asks for all n bytes again
recv_bufsize_whole(want, got) == want

\* the argument of sock.recv: n - len(data)
recv_bufsize(want, got) == want - Len(got)

\* the while test: len(data) < n
recv_loop(want, got) == IF Len(got) < want THEN "recv" ELSE "returned"

\* a faulty variant: the loop is left and the partial data returned
on_empty_chunk_break(want, got) == [rpc |-> "returned", exc |-> NoExc]

\* if not chunk: raise IOError("Unexpected EOF ...")
on_empty_chunk(want, got) == [rpc |-> "raised", exc |-> UnexpectedEof]

\* the call recv_all(sock, k), up to its first sock.recv
recv_call(k) ==
  /\ n' = k
  /\ data' = << >>
  /\ rpc' = recv_loop(k, << >>)

\* sock.recv hands over between 1 and bufsize of the bytes on the connection
recv_chunk ==
  /\ rpc = "recv"
  /\ Len(wire) > 0
  /\ \E k \in 1..Min(recv_bufsize(n, data), Len(wire)) :
       /\ data' = data \o Take(wire, k)
       /\ wire' = Drop(wire, k)
       /\ consumed' = consumed + k
       /\ rpc' = recv_loop(n, data \o Take(wire, k))
  /\ UNCHANGED << stream, peerCloses, peer, plan, fault, n, msgVars, exc, addrVars,
                  versionVars, mainVars >>

\* sock.recv returns b"": the peer has closed and nothing is left to read.
\* The exception leaves read_msg too when recv_all was called from it.
recv_eof ==
  /\ rpc = "recv"
  /\ Len(wire) = 0
  /\ peerCloses
  /\ LET o == on_empty_chunk(n, data)
     IN  /\ rpc' = o.rpc
         /\ exc' = o.exc
         /\ mpc' = IF o.rpc = "raised" /\ mpc # "idle" THEN "raised" ELSE mpc
  /\ UNCHANGED << peerVars, consumed, n, data, hdr, ret, addrVars,
                  versionVars, mainVars >>

\* ---------------------------------------------------------------------
\* read_msg
\* ---------------------------------------------------------------------
read_msg_call ==
  /\ peer = "done"
  /\ mpc = "idle"
  /\ rpc = "idle"
  /\ mpc' = "header"
  /\ recv_call(HeaderSize)
  /\ UNCHANGED << peerVars, consumed, hdr, ret, exc, addrVars,
                  versionVars, mainVars >>

\* lines 105-113: unpack the header, check the magic, decode the command,
\* ask for the payload
read_msg_header ==
  /\ mpc = "header"
  /\ rpc = "returned"
  /\ LET h == unpack_header(data)
         c == decode_ascii(rstrip_zeros(h.command_raw))
     IN  IF ~h.ok
         THEN /\ mpc' = "raised" /\ exc' = StructError
              /\ UNCHANGED << n, data, rpc, hdr >>
         ELSE IF ~magic_ok(h.magic)
         THEN /\ mpc' = "raised" /\ exc' = BadMagic
              /\ UNCHANGED << n, data, rpc, hdr >>
         ELSE IF ~c.ok
         THEN /\ mpc' = "raised" /\ exc' = UnicodeDecodeError
              /\ UNCHANGED << n, data, rpc, hdr >>
         ELSE /\ mpc' = "payload"
              /\ hdr' = [command |-> c.text, length |-> h.length,
                         checksum |-> h.checksum]
              /\ recv_call(h.length)
              /\ exc' = exc
  /\ UNCHANGED << peerVars, consumed, ret, addrVars,
                  versionVars, mainVars >>

\* lines 115-119: verify the checksum, return (command, payload)
read_msg_payload ==
  /\ mpc = "payload"
  /\ rpc = "returned"
  /\ IF checksum_ok(data, hdr.checksum)
     THEN /\ mpc' = "returned" /\ ret' = << hdr.command, data >> /\ exc' = exc
     ELSE /\ mpc' = "raised" /\ exc' = ChecksumMismatch /\ ret' = ret
  /\ UNCHANGED << peerVars, recvVars, hdr, addrVars,
                  versionVars, mainVars >>

\* ---------------------------------------------------------------------
\* the peer and the connection
\* ---------------------------------------------------------------------
MaxPayloadLen == 2
MaxStream == 4
MaxN == 3

SeqsUpTo(S, k) == UNION { [1..m -> S] : m \in 0..k }

PayloadBytes == { 0, 255 }
Payloads == SeqsUpTo(PayloadBytes, MaxPayloadLen)

\* "a", "version", "abcdefghijkl"
Commands ==
  { << 97 >>,
    << 118, 101, 114, 115, 105, 111, 110 >>,
    << 97, 98, 99, 100, 101, 102, 103, 104, 105, 106, 107, 108 >> }

NoPlan == [command |-> << >>, payload |-> << >>]
NoFault == {}

\* a byte with one bit inverted: mask 1 is the lowest bit, mask 128 the highest
Flip(b, mask) ==
  IF (b \div mask) % 2 = 0 THEN b + mask ELSE b - mask

FlipMasks == { 1, 128 }

\* the first and the last byte of every header field, and every payload byte
FlipPositions(msg) == { 1, 4, 5, 16, 17, 20, 21, 24 } \cup (25..Len(msg))

\* one inverted bit anywhere above, or the lowest bit of the magic inverted
\* together with a bit of the command, the length or the checksum
Flips(msg) ==
  LET single == { { [pos |-> p, mask |-> m] } :
                    p \in FlipPositions(msg), m \in FlipMasks }
      other  == { [pos |-> 5, mask |-> 128], [pos |-> 17, mask |-> 1],
                  [pos |-> 21, mask |-> 1] }
  IN  { {} } \cup single \cup { { [pos |-> 1, mask |-> 1], g } : g \in other }

ApplyFlips(msg, flips) ==
  [i \in 1..Len(msg) |->
     IF \E f \in flips : f.pos = i
     THEN Flip(msg[i], (CHOOSE f \in flips : f.pos = i).mask)
     ELSE msg[i]]

\* the peer frames its message as this client does
peer_encode ==
  /\ peer = "encode"
  /\ wire' = make_message(plan.command, plan.payload)
  /\ peer' = "transmit"
  /\ UNCHANGED << stream, peerCloses, plan, fault, recvVars, msgVars, exc, addrVars,
                  versionVars, mainVars >>

\* the connection inverts bits of the message on its way
peer_transmit ==
  /\ peer = "transmit"
  /\ \E flips \in Flips(wire) :
       /\ wire' = ApplyFlips(wire, flips)
       /\ stream' = ApplyFlips(wire, flips)
       /\ fault' = flips
  /\ peer' = "done"
  /\ UNCHANGED << peerCloses, plan, recvVars, msgVars, exc, addrVars,
                  versionVars, mainVars >>

\* the peer closes the connection while the client waits in sock.recv: what
\* it has not sent by then never arrives
peer_close ==
  /\ peer = "done"
  /\ rpc = "recv"
  /\ ~peerCloses
  /\ wire' = << >>
  /\ peerCloses' = TRUE
  /\ UNCHANGED << stream, peer, plan, fault, recvVars, msgVars, exc, addrVars,
                  versionVars, mainVars >>

\* ---------------------------------------------------------------------
\* addr message decoding
\* ---------------------------------------------------------------------
EntrySize == 30

\* socket.inet_ntop(AF_INET, b): the four bytes in decimal, joined by dots
inet_ntop4(bytes) == [form |-> "dotted", groups |-> << >>, quad |-> bytes]

\* the 16-bit groups of a 16-byte address
Groups(bytes) == [i \in 1..8 |-> bytes[2 * i - 1] * 256 + bytes[2 * i]]

\* the number of zero groups in a row from group i on
RECURSIVE ZeroRun(_, _)
ZeroRun(g, i) == IF i > 8 \/ g[i] # 0 THEN 0 ELSE 1 + ZeroRun(g, i + 1)

\* socket.inet_ntop(AF_INET6, b), as the C library writes it: the groups in
\* hexadecimal, the first longest run of two or more zero groups written
\* "::" (-1 below), and an address of five zero groups and ffff (or of six
\* zero groups) ending in its last four bytes as a dotted quad
inet_ntop6(bytes) ==
  LET g     == Groups(bytes)
      len   == CHOOSE l \in 0..8 : /\ \E i \in 1..8 : ZeroRun(g, i) = l
                                   /\ \A i \in 1..8 : ZeroRun(g, i) <= l
      base  == CHOOSE i \in 1..8 : /\ ZeroRun(g, i) = len
                                   /\ \A j \in 1..(i - 1) : ZeroRun(g, j) < len
      best  == len >= 2
      embed == best /\ base = 1
               /\ (len = 6 \/ (len = 5 /\ g[6] = 65535))
      last  == IF embed THEN 6 ELSE 8
      before == IF best THEN SubSeq(g, 1, base - 1) ELSE SubSeq(g, 1, last)
      after  == IF best THEN SubSeq(g, base + len, last) ELSE << >>
  IN  [form |-> "ipv6",
       groups |-> IF best THEN before \o << -1 >> \o after ELSE before,
       quad |-> IF embed THEN SubSeq(bytes, 13, 16) ELSE << >>]

\* lines 160-165.  ip_bytes[:10] holds ten bytes and is compared with twelve
render_ip(ip_bytes) ==
  IF Take(ip_bytes, 12) = Zeros(12)
  THEN inet_ntop4(SubSeq(ip_bytes, 13, 16))
  ELSE IF Take(ip_bytes, 10) = Zeros(10) \o << 255, 255 >>
  THEN inet_ntop4(SubSeq(ip_bytes, 13, 16))
  ELSE inet_ntop6(ip_bytes)

\* struct "<I Q" at an offset: the timestamp, then the services
unpack_ts(payload, at) == unpack_le(SubSeq(payload, at + 1, at + 4))
unpack_services(payload, at) ==
  unpack_le(SubSeq(payload, at + 5, at + 12))

\* a faulty variant: the port is read in the byte order of its neighbours
unpack_port_le(payload, at) ==
  NumeralToInt(unpack_le(SubSeq(payload, at + 1, at + 2)))

\* struct ">H" at an offset (network byte order)
unpack_port(payload, at) ==
  NumeralToInt(unpack_be(SubSeq(payload, at + 1, at + 2)))

\* lines 151-174: one entry, at the 0-based offset of its first byte
decode_entry(payload, at) ==
  [timestamp |-> unpack_ts(payload, at),
   services |-> unpack_services(payload, at),
   ip |-> render_ip(SubSeq(payload, at + 13, at + 28)),
   port |-> unpack_port(payload, at + 28)]

\* a faulty variant: the count is read most significant byte first
unpack_count_be(payload, w) ==
  IF Len(payload) - 1 < w
  THEN [ok |-> FALSE, exc |-> StructError]
  ELSE [ok |-> TRUE, digits |-> unpack_be(SubSeq(payload, 2, 1 + w)),
        offset |-> 1 + w]

\* struct.unpack_from(fmt, payload, 1) for a format of w bytes
unpack_count(payload, w) ==
  IF Len(payload) - 1 < w
  THEN [ok |-> FALSE, exc |-> StructError]
  ELSE [ok |-> TRUE, digits |-> unpack_le(SubSeq(payload, 2, 1 + w)),
        offset |-> 1 + w]

\* lines 131-143: the CompactSize count and the offset of the first entry
compact_size(payload) ==
  IF Len(payload) = 0 THEN [ok |-> FALSE, exc |-> IndexError]
  ELSE IF payload[1] < 253
  THEN [ok |-> TRUE, digits |-> << payload[1] >>, offset |-> 1]
  ELSE IF payload[1] = 253 THEN unpack_count(payload, 2)
  ELSE IF payload[1] = 254 THEN unpack_count(payload, 4)
  ELSE unpack_count(payload, 8)

\* a faulty variant: the loop is left and the entries read so far returned
on_truncated_entry_break(acc) == [status |-> "returned", exc |-> NoExc, peers |-> acc]

\* raise IOError("Truncated addr entry")
on_truncated_entry(acc) == [status |-> "raised", exc |-> Truncated, peers |-> << >>]

\* a faulty variant: an entry already in the list is not added again
append_peer_unique(acc, entry) ==
  IF \E i \in 1..Len(acc) : acc[i] = entry THEN acc ELSE Append(acc, entry)

\* peers.append(...)
append_peer(acc, entry) == Append(acc, entry)

\* lines 147-175: the loop, with acc the peers of the iterations done
RECURSIVE decode_entries(_, _, _, _, _)
decode_entries(payload, total, done, at, acc) ==
  IF done >= total
  THEN [status |-> "returned", exc |-> NoExc, peers |-> acc]
  ELSE IF at + EntrySize > Len(payload)
  THEN on_truncated_entry(acc)
  ELSE decode_entries(payload, total, done + 1, at + EntrySize,
                      append_peer(acc, decode_entry(payload, at)))

\* lines 125-175; count and offset are the locals as line 143 leaves them
decode_addr_payload(payload) ==
  LET cs == compact_size(payload)
  IN  IF ~cs.ok
      THEN [status |-> "raised", exc |-> cs.exc, peers |-> << >>,
            count |-> << >>, offset |-> 0]
      ELSE LET r == decode_entries(payload, NumeralToInt(cs.digits), 0,
                                   cs.offset, << >>)
           IN  [status |-> r.status, exc |-> r.exc, peers |-> r.peers,
                count |-> cs.digits, offset |-> cs.offset]

\* the call decode_addr_payload(payload)
decode_addr ==
  /\ addrpc = "call"
  /\ LET r == decode_addr_payload(addrPayload)
     IN  /\ addrpc' = r.status
         /\ exc' = r.exc
         /\ peers' = r.peers
         /\ count' = r.count
         /\ offset' = r.offset
  /\ UNCHANGED << peerVars, recvVars, msgVars, addrPayload, shape,
                  versionVars, mainVars >>

\* ---------------------------------------------------------------------
\* address-list payloads
\* ---------------------------------------------------------------------
MaxRecords == 2
MaxCount == 3

\* thirty-byte entries as a peer sends them, each with what
\* decode_addr_payload returns for it
SampleRecords ==
  << [raw |-> << 1, 2, 3, 4,  13, 4, 0, 0, 0, 0, 0, 0,
                 0, 0, 0, 0, 0, 0, 0, 0, 0, 0, 255, 255, 127, 0, 0, 1,  26, 133 >>,
      entry |-> [timestamp |-> << 4, 3, 2, 1 >>,
                 services |-> << 0, 0, 0, 0, 0, 0, 4, 13 >>,
                 ip |-> [form |-> "ipv6", groups |-> << -1, 65535 >>,
                         quad |-> << 127, 0, 0, 1 >>],
                 port |-> 6789]],
     [raw |-> << 255, 255, 255, 255,  8, 7, 6, 5, 4, 3, 2, 129,
                 32, 1, 13, 184, 0, 0, 0, 0, 0, 0, 0, 0, 0, 0, 0, 1,  32, 141 >>,
      entry |-> [timestamp |-> << 255, 255, 255, 255 >>,
                 services |-> << 129, 2, 3, 4, 5, 6, 7, 8 >>,
                 ip |-> [form |-> "ipv6", groups |-> << 8193, 3512, -1, 1 >>,
                         quad |-> << >>],
                 port |-> 8333]],
     [raw |-> << 0, 0, 0, 128,  0, 0, 0, 0, 0, 0, 0, 0,
                 0, 0, 0, 0, 0, 0, 0, 0, 0, 0, 0, 0, 10, 0, 0, 1,  0, 80 >>,
      entry |-> [timestamp |-> << 128, 0, 0, 0 >>,
                 services |-> << 0, 0, 0, 0, 0, 0, 0, 0 >>,
                 ip |-> [form |-> "dotted", groups |-> << >>,
                         quad |-> << 10, 0, 0, 1 >>],
                 port |-> 80]],
     [raw |-> << 9, 0, 0, 0,  1, 0, 0, 0, 0, 0, 0, 0,
                 0, 0, 0, 0, 0, 0, 0, 0, 0, 0, 255, 254, 192, 168, 0, 1,  133, 26 >>,
      entry |-> [timestamp |-> << 0, 0, 0, 9 >>,
                 services |-> << 0, 0, 0, 0, 0, 0, 0, 1 >>,
                 ip |-> [form |-> "ipv6", groups |-> << -1, 65534, 49320, 1 >>,
                         quad |-> << >>],
                 port |-> 34074]] >>

\* a CompactSize prefix that declares count entries, in the form of the
\* given tag (0: the one-byte form) and width
CountPrefix(tag, w, c) ==
  [bytes |-> IF tag = 0 THEN << c >> ELSE << tag, c >> \o Zeros(w - 1),
   count |-> c, complete |-> TRUE]

\* a prefix cut short of the width its first byte announces
CutPrefix(bytes) == [bytes |-> bytes, count |-> 0, complete |-> FALSE]

CountPrefixes ==
  { CountPrefix(0, 1, c) : c \in 0..MaxCount }
  \cup { CountPrefix(253, 2, c) : c \in 0..MaxCount }
  \cup { CountPrefix(254, 4, c) : c \in 0..MaxCount }
  \cup { CountPrefix(255, 8, c) : c \in 0..MaxCount }
  \cup { CountPrefix(0, 1, 252),
         [bytes |-> << 253, 0, 1 >>, count |-> 256, complete |-> TRUE],
         [bytes |-> << 254, 0, 0, 0, 128 >>, count |-> MaxInt, complete |-> TRUE],
         [bytes |-> << 255, 0, 0, 0, 0, 0, 0, 0, 1 >>, count |-> MaxInt,
          complete |-> TRUE] }
  \cup { CutPrefix(<< >>), CutPrefix(<< 253 >>), CutPrefix(<< 253, 1 >>),
         CutPrefix(<< 254, 1, 0, 0 >>),
         CutPrefix(<< 255, 1, 0, 0, 0, 0, 0, 0 >>) }

\* the bytes that follow the last whole entry: none, or the start of one more
TailCuts == { 1, 29 }
Tails ==
  { [rec |-> 1, len |-> 0] }
  \cup { [rec |-> r, len |-> l] : r \in DOMAIN SampleRecords, l \in TailCuts }

RECURSIVE ConcatRaw(_)
ConcatRaw(records) ==
  IF Len(records) = 0 THEN << >>
  ELSE SampleRecords[Head(records)].raw \o ConcatRaw(Tail(records))

PayloadOf(s) ==
  s.prefix.bytes \o ConcatRaw(s.records)
  \o Take(SampleRecords[s.tail.rec].raw, s.tail.len)

NoShape == [prefix |-> CutPrefix(<< >>), records |-> << >>,
            tail |-> [rec |-> 1, len |-> 0]]

\* ---------------------------------------------------------------------
\* the version payload
\* ---------------------------------------------------------------------
\* OSError, the class that IOError names
OSError == [type |-> "IOError", what |-> "IllegalAddress"]

\* struct "<i": a signed 32-bit integer in two's complement
pack_i(v) ==
  IF v >= 0 THEN pack_le(IntToNumeral(v, 4))
  ELSE LET num == IntToNumeral((v + MaxInt) + 1, 4)
       IN  pack_le(<< num[1] + 128 >> \o Tail(num))

\* struct "<B": one byte, for a number in 0..255
pack_B(v) ==
  IF v < 0 \/ v > 255 THEN [ok |-> FALSE, exc |-> StructError]
  ELSE [ok |-> TRUE, bytes |-> << v >>]

\* struct "<H": two bytes, for a number in 0..65535
pack_H(v) ==
  IF v < 0 \/ v > 65535 THEN [ok |-> FALSE, exc |-> StructError]
  ELSE [ok |-> TRUE, bytes |-> pack_le(IntToNumeral(v, 2))]

\* struct "?"
pack_bool(b) == IF b THEN << 1 >> ELSE << 0 >>

\* str.encode("utf-8") of code points below 2048, the two halves of the
\* string encoded one after the other
RECURSIVE utf8_encode(_)
utf8_encode(str) ==
  IF Len(str) = 0 THEN << >>
  ELSE IF Len(str) = 1
  THEN (IF str[1] < 128 THEN << str[1] >>
        ELSE << 192 + (str[1] \div 64), 128 + (str[1] % 64) >>)
  ELSE utf8_encode(SubSeq(str, 1, Len(str) \div 2))
       \o utf8_encode(SubSeq(str, Len(str) \div 2 + 1, Len(str)))

\* the parts of a string between its dots (code point 46)
RECURSIVE SplitDots(_, _, _)
SplitDots(str, part, parts) ==
  IF Len(str) = 0 THEN Append(parts, part)
  ELSE IF Head(str) = 46 THEN SplitDots(Tail(str), << >>, Append(parts, part))
  ELSE SplitDots(Tail(str), Append(part, Head(str)), parts)

\* the value of a string of decimal digits, or -1 when it is not one in
\* plain decimal (empty, another character, or a leading zero)
RECURSIVE DecimalValue(_, _)
DecimalValue(part, acc) ==
  IF Len(part) = 0 THEN acc
  ELSE IF Head(part) < 48 \/ Head(part) > 57 \/ acc > 255 THEN -1
  ELSE DecimalValue(Tail(part), acc * 10 + (Head(part) - 48))

DecimalPart(part) ==
  IF Len(part) = 0 \/ (Len(part) > 1 /\ Head(part) = 48) THEN -1
  ELSE DecimalValue(part, 0)

\* socket.inet_aton on the four-part decimal notation a.b.c.d
inet_aton(ip_str) ==
  LET parts == SplitDots(ip_str, << >>, << >>)
      value == [i \in 1..Len(parts) |-> DecimalPart(parts[i])]
  IN  IF Len(parts) = 4 /\ \A i \in 1..4 : value[i] >= 0 /\ value[i] <= 255
      THEN [ok |-> TRUE, bytes |-> value]
      ELSE [ok |-> FALSE, exc |-> OSError]

\* lines 59-61
pack_ip(ip_str) ==
  LET ipv4 == inet_aton(ip_str)
  IN  IF ipv4.ok
      THEN [ok |-> TRUE, bytes |-> Zeros(10) \o << 255, 255 >> \o ipv4.bytes]
      ELSE ipv4

\* struct.pack("<Q16sH", services, pack_ip(ip_str), port)
pack_net_addr(services, ip_str, port) ==
  LET ip == pack_ip(ip_str)
      p  == pack_H(port)
  IN  IF ~ip.ok THEN ip
      ELSE IF ~p.ok THEN p
      ELSE [ok |-> TRUE,
            bytes |-> pack_le(services) \o pack_s(ip.bytes, 16) \o p.bytes]

\* lines 64-66: the user agent as a var_str
user_agent_varstr(user_agent) ==
  LET user_agent_bytes == utf8_encode(user_agent)
      len == pack_B(Len(user_agent_bytes))
  IN  IF len.ok THEN [ok |-> TRUE, bytes |-> len.bytes \o user_agent_bytes]
      ELSE len

\* lines 64-79, with timestamp and nonce given
make_version_payload(a) ==
  LET agent     == user_agent_varstr(a.user_agent)
      addr_recv == pack_net_addr(a.services, a.addr_recv_ip, a.addr_recv_port)
      addr_from == pack_net_addr(a.services, a.addr_from_ip, a.addr_from_port)
  IN  IF ~agent.ok THEN [status |-> "raised", exc |-> agent.exc, payload |-> << >>]
      ELSE IF ~addr_recv.ok
      THEN [status |-> "raised", exc |-> addr_recv.exc, payload |-> << >>]
      ELSE IF ~addr_from.ok
      THEN [status |-> "raised", exc |-> addr_from.exc, payload |-> << >>]
      ELSE [status |-> "returned", exc |-> NoExc,
            payload |-> pack_i(a.version) \o pack_le(a.services)
                        \o pack_le(a.timestamp)
                        \o pack_s(addr_recv.bytes, 26) \o pack_s(addr_from.bytes, 26)
                        \o pack_le(a.nonce) \o agent.bytes
                        \o pack_i(a.start_height) \o pack_bool(a.relay)]

\* the call make_version_payload(...)
make_version ==
  /\ vpc = "call"
  /\ LET r == make_version_payload(versionArgs)
     IN  /\ vpc' = r.status
         /\ exc' = r.exc
         /\ version_payload' = r.payload
  /\ UNCHANGED << peerVars, recvVars, msgVars, addrVars, versionArgs, mainVars >>

\* a reader of the payload hands its var_str, which starts at offset 80
\* and ends 5 bytes before the end, to the CompactSize decoder of lines
\* 131-143
varstr_pass ==
  /\ vpc = "returned"
  /\ addrpc = "idle"
  /\ addrPayload' = SubSeq(version_payload, 81, Len(version_payload) - 5)
  /\ addrpc' = "call"
  /\ UNCHANGED << peerVars, recvVars, msgVars, exc, shape, count, offset, peers,
                  versionVars, mainVars >>

\* arguments of make_version_payload: the defaults of lines 36-46 and others
DefaultAgent == << 47, 109, 121, 99, 108, 105, 101, 110, 116, 58, 48, 46, 49, 47 >>
AgentLengths == { 252, 253, 255, 256 }
Agents ==
  { << >>, DefaultAgent, << 233 >> }
  \cup { [i \in 1..k |-> 97] : k \in AgentLengths }
IpStrings ==
  { << 48, 46, 48, 46, 48, 46, 48 >>,
    << 49, 57, 50, 46, 49, 54, 56, 46, 49, 46, 50 >>,
    << 50, 53, 54, 46, 48, 46, 48, 46, 49 >> }
Ports == { 8333, 80, 257, 65536 }
VersionArgs ==
  [version : { 70015, -2 },
   services : { Zeros(8), << 0, 0, 0, 0, 0, 0, 10, 11 >> },
   timestamp : { << 0, 0, 0, 0, 101, 2, 3, 4 >> },
   addr_recv_ip : IpStrings,
   addr_recv_port : Ports,
   addr_from_ip : { << 48, 46, 48, 46, 48, 46, 48 >> },
   addr_from_port : Ports,
   nonce : { << 17, 18, 19, 20, 21, 22, 23, 24 >> },
   user_agent : Agents,
   start_height : { 0 },
   relay : BOOLEAN]
NoArgs == [version |-> 0]

\* make_version_payload not called
VersionIdle ==
  /\ versionArgs = NoArgs
  /\ vpc = "idle"
  /\ version_payload = << >>

\* ---------------------------------------------------------------------
\* main
\* ---------------------------------------------------------------------
\* socket.create_connection and s.sendall fail with an OSError
ConnectError == [type |-> "IOError", what |-> "ConnectFailed"]
SendError == [type |-> "IOError", what |-> "SendFailed"]

\* the commands main sends or looks for, and one more
Cmd ==
  [version |-> << 118, 101, 114, 115, 105, 111, 110 >>,
   verack  |-> << 118, 101, 114, 97, 99, 107 >>,
   getaddr |-> << 103, 101, 116, 97, 100, 100, 114 >>,
   addr    |-> << 97, 100, 100, 114 >>,
   ping    |-> << 112, 105, 110, 103 >>]

\* range(2)
HandshakeMessages == 2

\* int(time.time()) and random.getrandbits(64) in this run
Clock ==
  [timestamp : { << 0, 0, 0, 0, 105, 6, 240, 128 >> },
   nonce : { << 17, 18, 19, 20, 21, 22, 23, 24 >> }]

\* make_version_payload(): the defaults of lines 36-46
DefaultArgs(ts, nonce) ==
  [version |-> 70015, services |-> Zeros(8), timestamp |-> ts,
   addr_recv_ip |-> << 48, 46, 48, 46, 48, 46, 48 >>, addr_recv_port |-> 8333,
   addr_from_ip |-> << 48, 46, 48, 46, 48, 46, 48 >>, addr_from_port |-> 8333,
   nonce |-> nonce, user_agent |-> DefaultAgent, start_height |-> 0,
   relay |-> FALSE]

\* the lines main prints
Connecting == [line |-> "connecting", cmd |-> << >>, len |-> 0]
Sent(command) == [line |-> "sent", cmd |-> command, len |-> 0]
Received(command, len) == [line |-> "received", cmd |-> command, len |-> len]
PeerList(list) == [line |-> "peers", cmd |-> << >>, len |-> Len(list)]

\* a faulty variant: the connection is left open
main_raise_leak(e) ==
  /\ mainpc' = "failed"
  /\ exc' = e
  /\ sock' = sock

\* a faulty variant: the exception is swallowed and main goes on to getaddr
main_raise_resume(e) ==
  /\ mainpc' = "send_getaddr"
  /\ exc' = e
  /\ sock' = sock

\* an exception leaves main through the with statement, which closes an
\* open connection
main_raise(e) ==
  /\ mainpc' = "failed"
  /\ exc' = e
  /\ sock' = IF sock = "open" THEN "closed" ELSE sock

\* a faulty variant: the message is handed to the connection twice
send_resend(command, payload, lines, nextpc) ==
  \/ /\ sent' = sent \o << make_message(command, payload),
                            make_message(command, payload) >>
     /\ log' = Append(lines, Sent(command))
     /\ mainpc' = nextpc
     /\ UNCHANGED << sock, exc >>
  \/ /\ sent' = sent
     /\ log' = lines
     /\ main_raise(SendError)

\* s.sendall(make_message(command, payload)) and the print after it, lines
\* being what was printed before; the connection takes the message or fails
send(command, payload, lines, nextpc) ==
  \/ /\ sent' = Append(sent, make_message(command, payload))
     /\ log' = Append(lines, Sent(command))
     /\ mainpc' = nextpc
     /\ UNCHANGED << sock, exc >>
  \/ /\ sent' = sent
     /\ log' = lines
     /\ main_raise(SendError)

\* lines 182-183: the connection is made, or is not
main_connect ==
  /\ mainpc = "connect"
  /\ log' = Append(log, Connecting)
  /\ \/ /\ sock' = "open"
        /\ mainpc' = "send_version"
        /\ exc' = exc
     \/ main_raise(ConnectError)
  /\ UNCHANGED << peerVars, recvVars, msgVars, addrVars, versionVars, round, sent,
                  script >>

\* lines 185-187
main_send_version ==
  /\ mainpc = "send_version"
  /\ \E now \in Clock :
       LET r == make_version_payload(DefaultArgs(now.timestamp, now.nonce))
       IN  /\ versionArgs' = DefaultArgs(now.timestamp, now.nonce)
           /\ vpc' = r.status
           /\ version_payload' = r.payload
           /\ send(Cmd.version, r.payload, log, "handshake")
  /\ UNCHANGED << peerVars, recvVars, msgVars, addrVars, round, script >>

\* lines 191 and 208: the call read_msg(s)
main_read_msg ==
  /\ mainpc \in { "handshake", "wait_addr" }
  /\ read_msg_call

\* the timeout=10 of line 183 stays set on the connection: a sock.recv that
\* is given nothing for ten seconds raises socket.timeout, an OSError,
\* which leaves recv_all and read_msg
TimedOut == [type |-> "IOError", what |-> "TimedOut"]

recv_timeout ==
  /\ sock = "open"
  /\ rpc = "recv"
  /\ Len(wire) = 0
  /\ ~peerCloses
  /\ rpc' = "raised"
  /\ mpc' = "raised"
  /\ exc' = TimedOut
  /\ UNCHANGED << peerVars, consumed, n, data, hdr, ret, addrVars, versionVars,
                  mainVars >>

\* read_msg raised: nothing in main catches it
main_read_failed ==
  /\ mainpc \in { "handshake", "wait_addr" }
  /\ mpc = "raised"
  /\ main_raise(exc)
  /\ UNCHANGED << peerVars, recvVars, msgVars, addrVars, versionVars, round, sent,
                  log, script >>

\* a faulty variant: the loop is left after its first iteration
handshake_next_once(done) == "send_getaddr"

\* the for statement of line 190 after one more iteration
handshake_next(done) ==
  IF done < HandshakeMessages THEN "handshake" ELSE "send_getaddr"

\* a faulty variant: a verack is answered with a verack too
replies_verack_both(command) == command \in { Cmd.version, Cmd.verack }

\* a faulty variant: whatever is not a verack is answered with a verack
replies_verack_other(command) == command # Cmd.verack

\* line 193: cmd == "version"
replies_verack(command) == command = Cmd.version

\* lines 191-200: one iteration of the handshake loop, from the return of
\* read_msg on
main_handshake ==
  /\ mainpc = "handshake"
  /\ mpc = "returned"
  /\ LET lines == Append(log, Received(ret[1], Len(ret[2])))
     IN  IF replies_verack(ret[1])
         THEN send(Cmd.verack, << >>, lines, handshake_next(round + 1))
         ELSE /\ log' = lines
              /\ mainpc' = handshake_next(round + 1)
              /\ UNCHANGED << sent, sock, exc >>
  /\ round' = round + 1
  /\ mpc' = "idle"
  /\ rpc' = "idle"
  /\ UNCHANGED << peerVars, consumed, n, data, hdr, ret, addrVars, versionVars,
                  script >>

\* lines 203-204
main_send_getaddr ==
  /\ mainpc = "send_getaddr"
  /\ send(Cmd.getaddr, << >>, log, "wait_addr")
  /\ UNCHANGED << peerVars, recvVars, msgVars, addrVars, versionVars, round,
                  script >>

\* a faulty variant: the loop is left at a message that is not addr
wait_next_break(command) == "done"

\* lines 217-218 and 207: else: continue, while True
wait_next(command) == "wait_addr"

\* a faulty variant: the first message after getaddr is taken for the addr
is_addr_any(command) == TRUE

\* line 210: cmd == "addr"
is_addr(command) == command = Cmd.addr

\* lines 208-218: one iteration of the wait loop, from the return of
\* read_msg on
main_wait_addr ==
  /\ mainpc = "wait_addr"
  /\ mpc = "returned"
  /\ LET lines == Append(log, Received(ret[1], Len(ret[2])))
         r     == decode_addr_payload(ret[2])
     IN  IF is_addr(ret[1])
         THEN /\ addrPayload' = ret[2]
              /\ addrpc' = r.status
              /\ count' = r.count
              /\ offset' = r.offset
              /\ peers' = r.peers
              /\ IF r.status = "returned"
                 THEN /\ log' = Append(lines, PeerList(r.peers))
                      /\ mainpc' = "done"
                      /\ sock' = "closed"
                      /\ exc' = exc
                 ELSE /\ log' = lines
                      /\ main_raise(r.exc)
         ELSE /\ log' = lines
              /\ mainpc' = wait_next(ret[1])
              /\ UNCHANGED << sock, exc, addrPayload, addrpc, count, offset,
                              peers >>
  /\ mpc' = "idle"
  /\ rpc' = "idle"
  /\ UNCHANGED << peerVars, consumed, n, data, hdr, ret, shape, versionVars, round,
                  sent, script >>

\* ---------------------------------------------------------------------
\* the peer of a session
\* ---------------------------------------------------------------------
MaxMsgs == 4

\* what the peer may send: each message with the checksum of its payload,
\* but for "badsum"; "badmagic" is sent with another magic
PeerMessages ==
  [version    |-> [command |-> Cmd.version, payload |-> << 127, 17, 1, 0 >>,
                   checksum |-> << 137, 245, 123, 89 >>],
   verack     |-> [command |-> Cmd.verack, payload |-> << >>,
                   checksum |-> << 93, 246, 224, 226 >>],
   ping       |-> [command |-> Cmd.ping, payload |-> << 1, 2, 3, 4, 5, 6, 7, 8 >>,
                   checksum |-> << 37, 2, 250, 148 >>],
   addr       |-> [command |-> Cmd.addr,
                   payload |-> << 1 >> \o SampleRecords[2].raw,
                   checksum |-> << 252, 198, 39, 165 >>],
   addr_short |-> [command |-> Cmd.addr,
                   payload |-> << 2 >> \o SampleRecords[2].raw,
                   checksum |-> << 38, 150, 121, 243 >>],
   addr_empty |-> [command |-> Cmd.addr, payload |-> << >>,
                   checksum |-> << 93, 246, 224, 226 >>],
   badmagic   |-> [command |-> Cmd.verack, payload |-> << >>,
                   checksum |-> << 93, 246, 224, 226 >>],
   badsum     |-> [command |-> Cmd.ping, payload |-> << 1, 2, 3, 4, 5, 6, 7, 8 >>,
                   checksum |-> << 37, 2, 250, 149 >>]]

\* the bytes of one of these messages on the connection
peer_frame(kind) ==
  LET m == PeerMessages[kind]
  IN  (IF kind = "badmagic" THEN << 250, 191, 181, 218 >> ELSE pack_le(MAGIC_MAINNET))
      \o pack_s(PadCommand(m.command), 12) \o PackLength(Len(m.payload))
      \o m.checksum \o m.payload

\* instead of a whole message the peer may close the connection: at once,
\* after ten bytes of a header, or after four of the eight bytes of a payload
PeerHangups ==
  [eof         |-> << >>,
   cut_header  |-> Take(peer_frame("version"), 10),
   cut_payload |-> Take(peer_frame("ping"), HeaderSize + 4)]

\* what the peer may do after k messages: a peer sends addr only once the
\* handshake is over
PeerKinds(k) ==
  { "version", "verack", "ping", "badmagic", "badsum" }
  \cup DOMAIN PeerHangups
  \cup (IF k < HandshakeMessages THEN {}
        ELSE { "addr", "addr_short", "addr_empty" })

\* the peer sends one more message, or closes, while the client waits for
\* a message
peer_send ==
  /\ sock = "open"
  /\ rpc = "recv"
  /\ wire = << >>
  /\ ~peerCloses
  /\ Len(script) < MaxMsgs
  /\ \E kind \in PeerKinds(Len(script)) :
       LET bytes == IF kind \in DOMAIN PeerHangups THEN PeerHangups[kind]
                    ELSE peer_frame(kind)
       IN  /\ wire' = bytes
           /\ stream' = stream \o bytes
           /\ peerCloses' = (kind \in DOMAIN PeerHangups)
           /\ script' = Append(script, kind)
  /\ UNCHANGED << peer, plan, fault, recvVars, msgVars, exc, addrVars,
                  versionVars, sock, mainpc, round, sent, log >>

\* main not called
MainIdle ==
  /\ sock = "none"
  /\ mainpc = "idle"
  /\ round = 0
  /\ sent = << >>
  /\ log = << >>
  /\ script = << >>

\* ---------------------------------------------------------------------
\* consecutive read_msg calls on one connection
\* ---------------------------------------------------------------------
MaxBurst == 3

\* the messages make_message builds for a sequence of kinds, one after
\* the other
RECURSIVE ConcatFrames(_)
ConcatFrames(kinds) ==
  IF Len(kinds) = 0 THEN << >>
  ELSE make_message(PeerMessages[Head(kinds)].command,
                    PeerMessages[Head(kinds)].payload)
       \o ConcatFrames(Tail(kinds))

\* lines 191 and 208 in a loop: the caller takes the pair returned and
\* calls read_msg again
read_msg_next ==
  /\ mainpc = "idle"
  /\ mpc = "returned"
  /\ round' = round + 1
  /\ mpc' = "idle"
  /\ rpc' = "idle"
  /\ UNCHANGED << peerVars, consumed, n, data, hdr, ret, exc, addrVars, versionVars,
                  sock, mainpc, sent, log, script >>
\* ---------------------------------------------------------------------
\* specifications
\* ---------------------------------------------------------------------
StreamBytes == { 0, 65, 255 }

\* one call recv_all(sock, n) on a connection carrying any short stream
InitRecv ==
  /\ wire \in SeqsUpTo(StreamBytes, MaxStream)
  /\ stream = wire
  /\ peerCloses \in BOOLEAN
  /\ peer = "done"
  /\ plan = NoPlan
  /\ fault = NoFault
  /\ consumed = 0
  /\ n \in 0..MaxN
  /\ data = << >>
  /\ rpc = recv_loop(n, << >>)
  /\ mpc = "idle"
  /\ hdr = NoHdr
  /\ ret = NoRet
  /\ exc = NoExc
  /\ addrPayload = << >>
  /\ shape = NoShape
  /\ addrpc = "idle"
  /\ count = << >>
  /\ offset = 0
  /\ peers = << >>
  /\ VersionIdle
  /\ MainIdle

NextRecv == recv_chunk \/ recv_eof

SpecRecv == InitRecv /\ [][NextRecv]_vars

\* one call read_msg(sock) on a connection carrying one framed message
InitMsg ==
  /\ wire = << >>
  /\ stream = << >>
  /\ peerCloses = FALSE
  /\ peer = "encode"
  /\ plan \in [command : Commands, payload : Payloads]
  /\ fault = NoFault
  /\ consumed = 0
  /\ n = 0
  /\ data = << >>
  /\ rpc = "idle"
  /\ mpc = "idle"
  /\ hdr = NoHdr
  /\ ret = NoRet
  /\ exc = NoExc
  /\ addrPayload = << >>
  /\ shape = NoShape
  /\ addrpc = "idle"
  /\ count = << >>
  /\ offset = 0
  /\ peers = << >>
  /\ VersionIdle
  /\ MainIdle

NextMsg ==
  \/ peer_encode
  \/ peer_transmit
  \/ peer_close
  \/ read_msg_call
  \/ recv_chunk
  \/ recv_eof
  \/ read_msg_header
  \/ read_msg_payload

SpecMsg == InitMsg /\ [][NextMsg]_vars

\* one call decode_addr_payload(payload) on any payload built as above;
\* nothing follows a prefix that is cut short
InitAddr ==
  /\ wire = << >>
  /\ stream = << >>
  /\ peerCloses = FALSE
  /\ peer = "done"
  /\ plan = NoPlan
  /\ fault = NoFault
  /\ consumed = 0
  /\ n = 0
  /\ data = << >>
  /\ rpc = "idle"
  /\ mpc = "idle"
  /\ hdr = NoHdr
  /\ ret = NoRet
  /\ exc = NoExc
  /\ shape \in [prefix : CountPrefixes,
                records : SeqsUpTo(DOMAIN SampleRecords, MaxRecords),
                tail : Tails]
  /\ shape.prefix.complete \/ (Len(shape.records) = 0 /\ shape.tail.len = 0)
  /\ addrPayload = PayloadOf(shape)
  /\ addrpc = "call"
  /\ count = << >>
  /\ offset = 0
  /\ peers = << >>
  /\ VersionIdle
  /\ MainIdle

NextAddr == decode_addr

SpecAddr == InitAddr /\ [][NextAddr]_vars


\* one call make_version_payload(...), and its var_str read back
InitVersion ==
  /\ wire = << >>
  /\ stream = << >>
  /\ peerCloses = FALSE
  /\ peer = "done"
  /\ plan = NoPlan
  /\ fault = NoFault
  /\ consumed = 0
  /\ n = 0
  /\ data = << >>
  /\ rpc = "idle"
  /\ mpc = "idle"
  /\ hdr = NoHdr
  /\ ret = NoRet
  /\ exc = NoExc
  /\ addrPayload = << >>
  /\ shape = NoShape
  /\ addrpc = "idle"
  /\ count = << >>
  /\ offset = 0
  /\ peers = << >>
  /\ versionArgs \in VersionArgs
  /\ vpc = "call"
  /\ version_payload = << >>
  /\ MainIdle

NextVersion == make_version \/ varstr_pass \/ decode_addr

SpecVersion == InitVersion /\ [][NextVersion]_vars

\* one run of main against a peer that sends up to MaxMsgs messages
InitMain ==
  /\ wire = << >>
  /\ stream = << >>
  /\ peerCloses = FALSE
  /\ peer = "done"
  /\ plan = NoPlan
  /\ fault = NoFault
  /\ consumed = 0
  /\ n = 0
  /\ data = << >>
  /\ rpc = "idle"
  /\ mpc = "idle"
  /\ hdr = NoHdr
  /\ ret = NoRet
  /\ exc = NoExc
  /\ addrPayload = << >>
  /\ shape = NoShape
  /\ addrpc = "idle"
  /\ count = << >>
  /\ offset = 0
  /\ peers = << >>
  /\ VersionIdle
  /\ sock = "none"
  /\ mainpc = "connect"
  /\ round = 0
  /\ sent = << >>
  /\ log = << >>
  /\ script = << >>

NextMain ==
  \/ main_connect
  \/ main_send_version
  \/ main_read_msg
  \/ recv_chunk
  \/ recv_eof
  \/ recv_timeout
  \/ read_msg_header
  \/ read_msg_payload
  \/ main_read_failed
  \/ main_handshake
  \/ main_send_getaddr
  \/ main_wait_addr
  \/ peer_send

SpecMain == InitMain /\ [][NextMain]_vars

\* read_msg called again and again on a connection that carries up to
\* MaxBurst messages back to back
InitStream ==
  /\ script \in UNION { [1..k -> { "version", "verack", "ping" }] : k \in 1..MaxBurst }
  /\ stream = ConcatFrames(script)
  /\ wire = stream
  /\ peerCloses = FALSE
  /\ peer = "done"
  /\ plan = NoPlan
  /\ fault = NoFault
  /\ consumed = 0
  /\ n = 0
  /\ data = << >>
  /\ rpc = "idle"
  /\ mpc = "idle"
  /\ hdr = NoHdr
  /\ ret = NoRet
  /\ exc = NoExc
  /\ addrPayload = << >>
  /\ shape = NoShape
  /\ addrpc = "idle"
  /\ count = << >>
  /\ offset = 0
  /\ peers = << >>
  /\ VersionIdle
  /\ sock = "none"
  /\ mainpc = "idle"
  /\ round = 0
  /\ sent = << >>
  /\ log = << >>

NextStream ==
  \/ read_msg_call
  \/ recv_chunk
  \/ read_msg_header
  \/ read_msg_payload
  \/ read_msg_next

SpecStream == InitStream /\ [][NextStream]_vars
\* ---------------------------------------------------------------------
\* properties
\* ---------------------------------------------------------------------
Ended(pc) == pc \in { "returned", "raised" }

\* C1 (SpecRecv): whatever the chunks, a recv_all(sock, n) that returns has
\* taken exactly n bytes from the connection and returns exactly them, the
\* first n bytes of the stream in stream order: never fewer, never more.
RecvAllExact ==
  rpc = "returned" =>
    /\ Len(data) = n
    /\ consumed = n
    /\ data = SubSeq(stream, 1, n)
    /\ wire = SubSeq(stream, n + 1, Len(stream))

\* three bytes asked for and returned out of a longer stream
RecvAllExactWitness ==
  /\ rpc = "returned"
  /\ n = 3
  /\ data = << 0, 65, 255 >>
  /\ Len(stream) = 4

\* C2 (SpecRecv): when the peer closes with fewer than n bytes sent, the
\* call does not return: it ends by raising UnexpectedEof, however many
\* of the n bytes (0..n-1) had arrived.
RecvAllEof ==
  /\ (peerCloses /\ Len(stream) < n /\ rpc # "recv") =>
       (rpc = "raised" /\ exc = UnexpectedEof)
  /\ rpc = "raised" =>
       (exc = UnexpectedEof /\ Len(data) < n /\ data = stream)

\* two of three bytes had arrived when the peer closed
RecvAllEofWitness ==
  /\ rpc = "raised"
  /\ exc = UnexpectedEof
  /\ n = 3
  /\ Len(data) = 2

\* C3 (SpecMsg): a message framed by make_message(command, payload) that
\* arrives intact, in whatever chunks, is read back by read_msg as exactly
\* (command, payload); read_msg neither fails on it nor waits for more.
RoundTrip ==
  (peer = "done" /\ fault = {} /\ ~peerCloses) =>
    /\ mpc # "raised"
    /\ ~(rpc = "recv" /\ Len(wire) = 0)
    /\ mpc = "returned" =>
         (ret = << plan.command, plan.payload >> /\ Len(wire) = 0)

\* the twelve-character command with a two-byte payload, read back
RoundTripWitness ==
  /\ mpc = "returned"
  /\ fault = {}
  /\ Len(plan.command) = 12
  /\ plan.payload = << 0, 255 >>
  /\ ret = << plan.command, plan.payload >>

\* the payload of the message as the peer framed it has one bit inverted
PayloadFlipped ==
  /\ Cardinality(fault) = 1
  /\ \A f \in fault : f.pos > HeaderSize

\* C4 (SpecMsg): read_msg returns only a payload whose double SHA-256
\* starts with the four checksum bytes of the header it received; a
\* message with one payload byte changed, read to its end, is refused with
\* ChecksumMismatch.
ChecksumDecides ==
  /\ mpc = "returned" =>
       SubSeq(double_sha256(ret[2]), 1, 4) = SubSeq(stream, 21, 24)
  /\ (PayloadFlipped /\ Ended(mpc) /\ ~peerCloses) =>
       (mpc = "raised" /\ exc = ChecksumMismatch)

\* a two-byte payload whose last byte was changed, refused
ChecksumDecidesWitness ==
  /\ fault = { [pos |-> 26, mask |-> 128] }
  /\ plan.payload = << 255, 255 >>
  /\ mpc = "raised"
  /\ exc = ChecksumMismatch

\* the first four bytes the peer sent are not F9 BE B4 D9
MagicDiffers ==
  /\ peer = "done"
  /\ SubSeq(stream, 1, 4) # << 249, 190, 180, 217 >>

\* C5 (SpecMsg): a header whose magic differs from the network constant is
\* refused with BadMagic once its 24 bytes are in, whatever its command,
\* length and checksum fields; no payload is asked for and no byte beyond
\* the header is taken from the connection.
BadMagicFirst ==
  MagicDiffers =>
    /\ mpc \notin { "payload", "returned" }
    /\ consumed <= HeaderSize
    /\ (mpc = "raised" /\ consumed = HeaderSize) => exc = BadMagic
    /\ (Ended(mpc) /\ ~peerCloses) => (exc = BadMagic /\ consumed = HeaderSize)

\* wrong magic and a non-ASCII command byte, with the payload left unread
BadMagicFirstWitness ==
  /\ fault = { [pos |-> 1, mask |-> 1], [pos |-> 5, mask |-> 128] }
  /\ Len(plan.payload) = 2
  /\ mpc = "raised"
  /\ exc = BadMagic
  /\ Len(wire) = 2

\* C6 (SpecMsg): when the peer closes after 0 to 23 bytes of the header,
\* read_msg ends with UnexpectedEof, never BadMagic or ChecksumMismatch,
\* whatever the bytes that did arrive.
EofInHeader ==
  (peerCloses /\ consumed < HeaderSize /\ mpc \notin { "idle", "header" }) =>
    (mpc = "raised" /\ exc = UnexpectedEof)

\* the peer closed after four bytes, a wrong magic
EofInHeaderWitness ==
  /\ peerCloses
  /\ consumed = 4
  /\ MagicDiffers
  /\ mpc = "raised"
  /\ exc = UnexpectedEof

\* the header is in, its magic is right, and its command field holds a
\* byte >= 0x80
NonAsciiCommand ==
  /\ peer = "done"
  /\ consumed >= HeaderSize
  /\ SubSeq(stream, 1, 4) = << 249, 190, 180, 217 >>
  /\ \E i \in 5..16 : stream[i] >= 128

\* C7 (SpecMsg): a command field that still holds a non-ASCII byte is
\* refused with InvalidCommandEncoding, an IOError like every other
\* refusal of malformed data.
NonAsciiCommandIsIOError ==
  (NonAsciiCommand /\ mpc # "header") =>
    /\ mpc = "raised"
    /\ exc.what = "InvalidCommandEncoding"
    /\ exc.type = "IOError"

\* C8 (SpecAddr): a payload whose count declares more entries than it
\* holds in full is refused with Truncated, and no entry is returned.
TruncatedListFails ==
  (shape.prefix.complete /\ Len(shape.records) < shape.prefix.count
   /\ addrpc # "call") =>
    (addrpc = "raised" /\ exc = Truncated /\ peers = << >>)

\* count 2 with one whole entry and nothing more
TruncatedListFailsWitness ==
  /\ shape.prefix.bytes = << 2 >>
  /\ Len(shape.records) = 1
  /\ shape.tail.len = 0
  /\ addrpc = "raised"
  /\ exc = Truncated

\* C9 (SpecAddr): a decode that succeeds returns exactly count entries, the
\* i-th decoded from the i-th entry of the payload, equal entries included.
ListInWireOrder ==
  addrpc = "returned" =>
    /\ Len(peers) = shape.prefix.count
    /\ \A i \in 1..Len(peers) : peers[i] = SampleRecords[shape.records[i]].entry

\* the same entry twice, returned twice
ListInWireOrderWitness ==
  /\ addrpc = "returned"
  /\ shape.prefix.bytes = << 2 >>
  /\ shape.records = << 1, 1 >>
  /\ Len(peers) = 2
  /\ peers[1] = peers[2]

\* the digit of weight 256^k of a numeral
Digit(numeral, k) == numeral[Len(numeral) - k]

\* C10 (SpecAddr): in every decoded entry the port is 256 * b28 + b29 of
\* its thirty bytes, the timestamp has byte k (0..3) as its digit of weight
\* 256^k, and services has byte 4 + k (k in 0..7) as its digit of weight
\* 256^k.
PortBigEndian ==
  addrpc = "returned" =>
    \A i \in 1..Len(peers) :
      LET off == Len(shape.prefix.bytes) + EntrySize * (i - 1)
      IN  /\ peers[i].port = 256 * addrPayload[off + 29] + addrPayload[off + 30]
          /\ Len(peers[i].timestamp) = 4
          /\ \A k \in 0..3 :
               Digit(peers[i].timestamp, k) = addrPayload[off + 1 + k]
          /\ Len(peers[i].services) = 8
          /\ \A k \in 0..7 :
               Digit(peers[i].services, k) = addrPayload[off + 5 + k]

\* port bytes 1A 85 decoded as 6789
PortBigEndianWitness ==
  /\ addrpc = "returned"
  /\ Len(peers) = 1
  /\ addrPayload[30] = 26
  /\ addrPayload[31] = 133
  /\ peers[1].port = 6789


\* the sixteen address bytes of a sample record
IpOf(rec) == SubSeq(SampleRecords[rec].raw, 13, 28)

\* twelve zero bytes, or ten zero bytes and FF FF, before the last four
Ipv4Form(ip) ==
  \/ Take(ip, 12) = Zeros(12)
  \/ Take(ip, 12) = Zeros(10) \o << 255, 255 >>

\* C11 (SpecAddr): a decoded entry's address is the dotted quad of its last
\* four bytes exactly when its first twelve bytes are zero, or its first ten
\* are zero and the next two FF FF; any other address is rendered as IPv6.
Ipv4FormRendersDotted ==
  addrpc = "returned" =>
    \A i \in 1..Len(peers) :
      LET ip == IpOf(shape.records[i])
      IN  IF Ipv4Form(ip)
          THEN peers[i].ip = [form |-> "dotted", groups |-> << >>,
                              quad |-> SubSeq(ip, 13, 16)]
          ELSE peers[i].ip.form = "ipv6"

\* the width of the CompactSize form a first byte announces, less that byte
FormWidth(first) ==
  IF first < 253 THEN 0 ELSE IF first = 253 THEN 2 ELSE IF first = 254 THEN 4 ELSE 8

\* C12 (SpecAddr): the count is the first byte when that is below FD, else
\* the 2, 4 or 8 bytes after FD, FE or FF read least significant byte
\* first; 1, 3, 5 or 9 bytes are consumed, and the first entry is decoded
\* from the byte right after them.
CompactSizeDecoded ==
  (shape.prefix.complete /\ addrpc # "call") =>
    LET first == addrPayload[1]
        w     == FormWidth(first)
    IN  /\ offset = 1 + w
        /\ offset = Len(shape.prefix.bytes)
        /\ IF w = 0 THEN count = << first >>
           ELSE /\ Len(count) = w
                /\ \A k \in 0..(w - 1) : Digit(count, k) = addrPayload[2 + k]
        /\ (addrpc = "returned" /\ Len(peers) >= 1) =>
             peers[1] = SampleRecords[shape.records[1]].entry

\* FE 02 00 00 00 and two entries: count 2, five bytes consumed
CompactSizeDecodedWitness ==
  /\ shape.prefix.bytes = << 254, 2, 0, 0, 0 >>
  /\ Len(shape.records) = 2
  /\ addrpc = "returned"
  /\ count = << 0, 0, 0, 2 >>
  /\ offset = 5
  /\ Len(peers) = 2

\* C13 (SpecAddr): a payload that ends before its CompactSize count does is
\* refused with Truncated, the error of a truncated entry.
ShortCountIsTruncated ==
  (~shape.prefix.complete /\ addrpc # "call") =>
    (addrpc = "raised" /\ exc = Truncated)

\* C17 (SpecVersion): in a version payload the receiver's port is bytes 44
\* and 45 and the sender's port bytes 70 and 71 (counted from 0), each most
\* significant byte first, and the other integer fields are least
\* significant byte first.
VersionPortsBigEndian ==
  vpc = "returned" =>
    /\ SubSeq(version_payload, 45, 46) = IntToNumeral(versionArgs.addr_recv_port, 2)
    /\ SubSeq(version_payload, 71, 72) = IntToNumeral(versionArgs.addr_from_port, 2)
    /\ Reverse(SubSeq(version_payload, 5, 12)) = versionArgs.services
    /\ Reverse(SubSeq(version_payload, 13, 20)) = versionArgs.timestamp
    /\ Reverse(SubSeq(version_payload, 21, 28)) = versionArgs.services
    /\ Reverse(SubSeq(version_payload, 47, 54)) = versionArgs.services
    /\ Reverse(SubSeq(version_payload, 73, 80)) = versionArgs.nonce

\* the width of the smallest CompactSize form that holds v (v < 2^31)
MinimalWidth(v) == IF v < 253 THEN 1 ELSE IF v < 65536 THEN 3 ELSE 5

\* C19 (SpecVersion): every length is encoded, in the smallest CompactSize
\* form that holds it, and the decoder reads the same value back from
\* exactly the bytes of that form.
CompactSizeRoundTrip ==
  LET len == Len(utf8_encode(versionArgs.user_agent))
  IN  /\ (vpc = "raised") =>
           \/ versionArgs.addr_recv_port > 65535
           \/ versionArgs.addr_from_port > 65535
           \/ exc = OSError
      /\ (addrpc \in { "returned", "raised" }) =>
           /\ NumeralToInt(count) = len
           /\ offset = MinimalWidth(len)

\* C18 (SpecMsg): a message built by make_message is 24 + len(payload)
\* bytes: the magic F9 BE B4 D9, the command in 12 bytes with zeros after
\* it, len(payload) in 4 bytes least significant first, the first 4 bytes
\* of the double hash of the payload, then the payload.
EnvelopeInvariant ==
  peer = "transmit" =>
    /\ Len(wire) = HeaderSize + Len(plan.payload)
    /\ SubSeq(wire, 1, 4) = << 249, 190, 180, 217 >>
    /\ SubSeq(wire, 5, 4 + Len(plan.command)) = plan.command
    /\ \A i \in (5 + Len(plan.command))..16 : wire[i] = 0
    /\ wire[17] + 256 * wire[18] = Len(plan.payload)
    /\ wire[19] = 0 /\ wire[20] = 0
    /\ SubSeq(wire, 21, 24) = SubSeq(double_sha256(plan.payload), 1, 4)
    /\ SubSeq(wire, 25, Len(wire)) = plan.payload

\* "version" with the empty payload, whose checksum is 5D F6 E0 E2
EnvelopeInvariantWitness ==
  /\ peer = "transmit"
  /\ plan.command = << 118, 101, 114, 115, 105, 111, 110 >>
  /\ plan.payload = << >>
  /\ Len(wire) = 24
  /\ SubSeq(wire, 17, 24) = << 0, 0, 0, 0, 93, 246, 224, 226 >>

\* the positions in the log of the lines "received", and those before i
ReceivedLines == { i \in 1..Len(log) : log[i].line = "received" }
ReceivedBefore(i) == { j \in ReceivedLines : j < i }

\* the messages sent that carry a given command
SentWith(command) ==
  { i \in 1..Len(sent) : SubSeq(sent[i], 5, 16) = pack_s(command, 12) }

\* past the handshake loop
Established == mainpc \in { "send_getaddr", "wait_addr", "done" }

\* the peer opens with one version and one verack, in either order
PeerOpensInOrder ==
  /\ Len(script) >= 2
  /\ { script[1], script[2] } = { "version", "verack" }

\* C14 (SpecMain): when the peer opens with one version and one verack, in
\* either order, the client is past the handshake once it has consumed
\* both, and from then on it has sent exactly one verack; a verack is only
\* ever sent right after a version is consumed, before anything else is
\* read, and it is the empty-payload message.
HandshakeOneVerack ==
  /\ (PeerOpensInOrder /\ Cardinality(ReceivedLines) >= 2 /\ mainpc # "failed") =>
       /\ Established
       /\ Cardinality(SentWith(Cmd.verack)) = 1
       /\ \E i \in 1..(Len(log) - 1) :
            /\ log[i] = Received(Cmd.version, 4)
            /\ log[i + 1] = Sent(Cmd.verack)
  /\ \A i \in 1..Len(log) :
       log[i] = Sent(Cmd.verack) =>
         (i > 1 /\ log[i - 1].line = "received" /\ log[i - 1].cmd = Cmd.version)
  /\ \A i \in SentWith(Cmd.verack) : Len(sent[i]) = HeaderSize

\* verack, then version answered with a verack, then getaddr
HandshakeOneVerackWitness ==
  /\ Len(script) = 2
  /\ script = << "verack", "version" >>
  /\ mainpc = "wait_addr"
  /\ Cardinality(SentWith(Cmd.verack)) = 1
  /\ log[Len(log)] = Sent(Cmd.getaddr)
  /\ log[Len(log) - 1] = Sent(Cmd.verack)

\* C15 (SpecMain): when main has ended, by its return or by an exception,
\* the connection is not open.
ClosedOnEveryExit ==
  mainpc \in { "done", "failed" } => sock # "open"

\* an addr payload that is cut short ends main, with the connection closed
ClosedOnEveryExitWitness ==
  /\ mainpc = "failed"
  /\ exc = Truncated
  /\ sock = "closed"
  /\ script[Len(script)] = "addr_short"

\* C16 (SpecMain): once an exception is raised nothing more is sent, read
\* or printed, the exception stays the one raised, main ends, and no peer
\* list is returned.
ErrorEndsSession ==
  /\ [](exc # NoExc => (peers = << >> /\ mainpc # "done"))
  /\ [][exc # NoExc =>
          /\ sent' = sent
          /\ consumed' = consumed
          /\ log' = log
          /\ exc' = exc
          /\ mainpc' = "failed"]_vars

\* a checksum mismatch in the second message of the handshake
ErrorEndsSessionWitness ==
  /\ mainpc = "failed"
  /\ exc = ChecksumMismatch
  /\ script = << "version", "badsum" >>
  /\ Len(sent) = 2
  /\ Cardinality(ReceivedLines) = 1

\* C20 (SpecMain): the client is in the handshake loop while it has
\* consumed fewer than two messages, leaves it when it has consumed two,
\* and sends getaddr with exactly two messages consumed before it,
\* whatever their commands.
HandshakeTwoMessages ==
  /\ mainpc = "handshake" => Cardinality(ReceivedLines) < 2
  /\ mainpc = "send_getaddr" => Cardinality(ReceivedLines) = 2
  /\ \A i \in 1..Len(log) :
       log[i] = Sent(Cmd.getaddr) => Cardinality(ReceivedBefore(i)) = 2

\* two pings, then getaddr
HandshakeTwoMessagesWitness ==
  /\ script = << "ping", "ping" >>
  /\ mainpc = "wait_addr"
  /\ log[Len(log)] = Sent(Cmd.getaddr)
  /\ Cardinality(ReceivedLines) = 2
  /\ SentWith(Cmd.verack) = {}

\* the lines printed before line i for a message received with a command
ReceivedWith(command, i) ==
  { j \in ReceivedBefore(i) : log[j].cmd = command }

\* C21 (SpecMain): whenever the client is past the handshake and has sent
\* getaddr, it has received the version and the verack of the peer before
\* it, and has sent its own verack, whatever else the peer sent.
GetaddrAfterBoth ==
  \A i \in 1..Len(log) :
    (Established /\ log[i] = Sent(Cmd.getaddr)) =>
      /\ ReceivedWith(Cmd.version, i) # {}
      /\ ReceivedWith(Cmd.verack, i) # {}
      /\ SentWith(Cmd.verack) # {}

\* the lines printed for messages sent, in order
SentLines == { i \in 1..Len(log) : log[i].line = "sent" }

\* C22 (SpecMain): a message consumed in the handshake loop is answered if
\* and only if its command is version: the line after a version received
\* there is the verack sent (or the send failed and main ended), only one
\* verack follows it, and after any other command nothing is sent in
\* reply: the next line is the next message received or, after the second
\* message, getaddr. Every message sent has its line, and every verack
\* sent is a bare header with length 0.
VerackOnlyForVersion ==
  /\ Cardinality(SentLines) = Len(sent)
  /\ Cardinality({ i \in SentLines : log[i].cmd = Cmd.verack })
       = Cardinality(SentWith(Cmd.verack))
  /\ \A i \in SentWith(Cmd.verack) :
       /\ Len(sent[i]) = HeaderSize
       /\ SubSeq(sent[i], 17, 20) = Zeros(4)
  /\ \A i \in ReceivedLines :
       Cardinality(ReceivedBefore(i)) < HandshakeMessages =>
         IF log[i].cmd = Cmd.version
         THEN /\ i = Len(log) => (mainpc = "failed" /\ exc = SendError)
              /\ i < Len(log) => log[i + 1] = Sent(Cmd.verack)
              /\ i + 1 < Len(log) => log[i + 2] # Sent(Cmd.verack)
         ELSE i < Len(log) =>
                \/ log[i + 1].line = "received"
                \/ /\ log[i + 1] = Sent(Cmd.getaddr)
                   /\ Cardinality(ReceivedBefore(i)) = HandshakeMessages - 1

\* a ping left unanswered, then a version answered with one verack
VerackOnlyForVersionWitness ==
  /\ script = << "ping", "version" >>
  /\ Len(log) = 5
  /\ log[3] = Received(Cmd.ping, 8)
  /\ log[4] = Received(Cmd.version, 4)
  /\ log[5] = Sent(Cmd.verack)
  /\ Len(sent) = 2
  /\ mainpc = "send_getaddr"

\* C23 (SpecMain): the messages sent are in order. The version is the
\* first message sent and is sent once, before anything is read from the
\* connection; getaddr is sent at most once, and once in a run that is past
\* the handshake loop; it is a bare header with length 0, it is sent with
\* two messages received before it and none of the handshake left to
\* read, and it is the last message sent, so every verack is before it.
OutboundOrder ==
  /\ Len(sent) >= 1 => SentWith(Cmd.version) = { 1 }
  /\ (consumed > 0 \/ mpc # "idle" \/ ReceivedLines # {}) =>
       (Len(sent) >= 1 /\ log[2] = Sent(Cmd.version))
  /\ Cardinality(SentWith(Cmd.getaddr)) <= 1
  /\ mainpc \in { "wait_addr", "done" } =>
       Cardinality(SentWith(Cmd.getaddr)) = 1
  /\ mainpc \in { "connect", "send_version", "handshake", "send_getaddr" } =>
       SentWith(Cmd.getaddr) = {}
  /\ \A i \in SentWith(Cmd.getaddr) :
       /\ i = Len(sent)
       /\ Len(sent[i]) = HeaderSize
       /\ SubSeq(sent[i], 17, 20) = Zeros(4)
       /\ \A j \in SentWith(Cmd.verack) : j < i
  /\ \A i \in SentLines :
       log[i] = Sent(Cmd.getaddr) =>
         /\ Cardinality(ReceivedBefore(i)) = HandshakeMessages
         /\ \A j \in SentLines : j <= i

\* version, verack, getaddr sent in this order, then two more messages
\* read with nothing sent
OutboundOrderWitness ==
  /\ script = << "version", "verack", "version", "addr" >>
  /\ mainpc = "done"
  /\ Len(sent) = 3
  /\ SentWith(Cmd.version) = { 1 }
  /\ SentWith(Cmd.verack) = { 2 }
  /\ SentWith(Cmd.getaddr) = { 3 }
  /\ Cardinality(ReceivedLines) = 4

\* the line printed for getaddr, 0 when there is none
GetaddrLine ==
  IF \E i \in SentLines : log[i] = Sent(Cmd.getaddr)
  THEN CHOOSE i \in SentLines : log[i] = Sent(Cmd.getaddr)
  ELSE 0

\* the lines printed for addr messages received after getaddr
AddrLines ==
  { i \in ReceivedLines : GetaddrLine > 0 /\ i > GetaddrLine /\ log[i].cmd = Cmd.addr }

\* C24 (SpecMain): after getaddr, a message whose command is not addr is
\* dropped: nothing is sent, no peer list exists, and the client goes on
\* waiting. The first addr received ends the run: no message is received
\* after it, and unless its payload fails to decode main is done with the
\* records decoded from the payload of that message, which are the last
\* thing printed. Once main is done nothing is being read.
FirstAddrEndsSession ==
  /\ \A i \in ReceivedLines :
       (GetaddrLine > 0 /\ i > GetaddrLine /\ log[i].cmd # Cmd.addr) =>
         /\ \A j \in SentLines : j < i
         /\ i = Len(log) =>
              /\ mainpc \in { "wait_addr", "failed" }
              /\ mainpc = "failed" => exc \notin { Truncated, StructError, IndexError }
              /\ peers = << >>
              /\ addrpc = "idle"
  /\ \A i \in AddrLines :
       /\ \A j \in ReceivedLines : j <= i
       /\ mainpc \in { "done", "failed" }
       /\ addrPayload = PeerMessages[script[Len(script)]].payload
       /\ mainpc = "failed" => (i = Len(log) /\ addrpc = "raised" /\ peers = << >>)
       /\ mainpc = "done" =>
            /\ addrpc = "returned"
            /\ peers = decode_addr_payload(addrPayload).peers
            /\ Len(log) = i + 1
            /\ log[i + 1] = PeerList(peers)
  /\ mainpc = "done" =>
       /\ Cardinality(AddrLines) = 1
       /\ mpc = "idle"
       /\ rpc = "idle"
       /\ consumed = Len(stream)
       /\ Cardinality(ReceivedLines) = Len(script)

\* after getaddr a version is dropped unanswered, then the addr ends the
\* run with its one record
FirstAddrEndsSessionWitness ==
  /\ script = << "verack", "version", "version", "addr" >>
  /\ mainpc = "done"
  /\ Len(sent) = 3
  /\ SentWith(Cmd.verack) = { 2 }
  /\ peers = << SampleRecords[2].entry >>
  /\ log[Len(log)] = PeerList(peers)

\* the exceptions of a malformed message or payload, and of a peer that closed
PeerFailures ==
  { UnexpectedEof, BadMagic, ChecksumMismatch, UnicodeDecodeError, StructError,
    Truncated, IndexError }

\* the messages of the peer that were not addr, received and dropped after
\* getaddr, and then a valid addr, all of them read
DroppedThenAddr(k) ==
  /\ Len(script) = HandshakeMessages + k + 1
  /\ \A j \in (HandshakeMessages + 1)..(Len(script) - 1) :
       script[j] \in { "version", "verack", "ping" }
  /\ script[Len(script)] = "addr"
  /\ Cardinality(ReceivedLines) = Len(script)

\* C25 as stated (SpecMain): once getaddr is sent main ends only by an addr
\* message, a malformed message or the peer closing, never otherwise: with
\* no addr received and no such failure the client is still waiting, and
\* any number of dropped messages followed by a valid addr ends in success.
WaitEndsOnlyByPeer ==
  GetaddrLine > 0 =>
    /\ mainpc = "failed" => exc \in PeerFailures
    /\ (mainpc # "failed" /\ AddrLines = {}) => mainpc = "wait_addr"
    /\ mainpc = "done" => AddrLines # {}
    /\ \A k \in 0..MaxMsgs : DroppedThenAddr(k) => mainpc = "done"

\* C25 amended (SpecMain): the wait has no bound on the number of messages,
\* but every receive has the timeout of the connection. Once getaddr is
\* sent main ends only by an addr message, a malformed message, the peer
\* closing, or a receive that timed out with nothing to read; with no addr
\* received and no failure the client is still waiting, however many
\* messages it has dropped, and any number of dropped messages followed by
\* a valid addr, all of them received, ends in success.
WaitEndsByPeerOrTimeout ==
  /\ exc = TimedOut =>
       /\ consumed = Len(stream)
       /\ wire = << >>
       /\ data = << >>
       /\ mainpc \in { "handshake", "wait_addr", "failed" }
       /\ peers = << >>
  /\ GetaddrLine > 0 =>
       /\ mainpc = "failed" => exc \in PeerFailures \cup { TimedOut }
       /\ (mainpc # "failed" /\ AddrLines = {}) => mainpc = "wait_addr"
       /\ mainpc = "done" => AddrLines # {}
       /\ \A k \in 0..MaxMsgs : DroppedThenAddr(k) => mainpc = "done"

\* a ping is dropped after getaddr, then the peer is silent and the
\* receive times out
WaitEndsByPeerOrTimeoutWitness ==
  /\ script = << "version", "verack", "ping" >>
  /\ Cardinality(ReceivedLines) = 3
  /\ GetaddrLine > 0
  /\ mainpc = "failed"
  /\ exc = TimedOut
  /\ sock = "closed"

\* the bytes of the first j messages of the stream
RECURSIVE FrameEnd(_)
FrameEnd(j) ==
  IF j = 0 THEN 0
  ELSE FrameEnd(j - 1) + HeaderSize + Len(PeerMessages[script[j]].payload)

\* C26 (SpecStream): on a connection carrying k valid messages back to
\* back, however sock.recv cuts them, no read_msg raises, the bytes taken
\* are always a prefix of the stream that ends inside the message being
\* read, recv_all never holds more than the n bytes it was asked for, each
\* read_msg returns the command and payload of the next message having
\* taken exactly its 24 + length bytes, and between calls the bytes taken
\* are exactly the messages returned.
StreamAligned ==
  /\ mpc # "raised"
  /\ rpc # "raised"
  /\ exc = NoExc
  /\ wire = Drop(stream, consumed)
  /\ Len(data) <= n
  /\ round <= Len(script)
  /\ consumed >= FrameEnd(round)
  /\ round < Len(script) => consumed <= FrameEnd(round + 1)
  /\ round = Len(script) => consumed = Len(stream)
  /\ mpc = "idle" => consumed = FrameEnd(round)
  /\ mpc = "header" => consumed = FrameEnd(round) + Len(data)
  /\ mpc = "payload" => consumed = FrameEnd(round) + HeaderSize + Len(data)
  /\ mpc = "returned" =>
       /\ round < Len(script)
       /\ ret = << PeerMessages[script[round + 1]].command,
                   PeerMessages[script[round + 1]].payload >>
       /\ consumed = FrameEnd(round + 1)
       /\ consumed = FrameEnd(round) + HeaderSize + Len(ret[2])

\* the third of three messages is returned, with the whole stream taken
StreamAlignedWitness ==
  /\ script = << "ping", "verack", "version" >>
  /\ round = 2
  /\ mpc = "returned"
  /\ ret = << Cmd.version, << 127, 17, 1, 0 >> >>
  /\ consumed = 3 * HeaderSize + 12
  /\ wire = << >>
====
